---- MODULE Spec2Model ----
(***************************************************************************)
(* Model of the agent runtime (src/claudable/src/ai/agent.py: gen, step,   *)
(* _execute_tool, StepResult, agent) and of the search pipeline            *)
(* (src/claudable/src/agents/agent_search.py: search_agent), of the LM      *)
(* client (LM.start, close, stream, batch) and of the parallel runner of   *)
(* qwen agents (src/claudable/src/mcp_tools/agents.py).                    *)
(*                                                                         *)
(* Strings are modelled as sequences of tokens so that concatenation is    *)
(* Sequences' \o.  The argument alphabet is the two JSON braces, every     *)
(* streamed fragment being one of them (or empty, in StepSpec); the only   *)
(* argument strings the executor accepts over it are "" (mapped to {}      *)
(* before parsing) and "{}".                                               *)
(* Whether the registered tool returns or raises is decided when its       *)
(* execution completes.                                                    *)
(***************************************************************************)
EXTENDS Integers, Sequences, FiniteSets, TLC

\* ---------------------------------------------------------------- bounds
MaxIter == 2
MaxEvents == 3
MaxUrls == 2
MaxOldRows == 1
MaxLines == 3
MaxBatch == 3
MaxAgents == 5
MaxOps == 4
MaxCalls == 2

\* ------------------------------------------------------- input alphabets
IDS == {"a", "b"}
NONE == "none"
REGISTRY == {"tool"}
NAMES == REGISTRY \cup {"ghost"}
ArgFragments == {<<"{">>, <<"}">>}
ContentFragments == {<<"t">>}
UserMessage == [role |-> "user", hasContent |-> TRUE, content |-> <<"q">>,
                tool_calls |-> <<>>, tool_call_id |-> NONE]
InitialHistories == {<<UserMessage>>}

VARIABLES
  pc, max_iterations, early_tool_execution, execute_tools, iteration,
  total_tool_calls, history, gen_tool_call_id, gen_tool_call_name, content, tool_call_buffer,
  tool_futures, last_tool_id, step_tool_calls, results, await_idx,
  agent_result, error, events, completed, rounds, deltas

agentVars == <<pc, max_iterations, early_tool_execution, execute_tools,
               iteration,
               total_tool_calls, history, gen_tool_call_id,
               gen_tool_call_name, content, tool_call_buffer, tool_futures,
               last_tool_id, step_tool_calls, results, await_idx,
               agent_result, error, events, completed, rounds,
               deltas>>

VARIABLES
  spc, search_results, fpc, ftext, method_used, invoked, succeeded, db,
  db_entries, apc, launched, doc_analyses, final_answer, search_error

searchVars == <<spc, search_results, fpc, ftext, method_used, invoked,
                succeeded, db, db_entries, apc, launched, doc_analyses, final_answer,
                search_error>>

VARIABLES
  lpc, lines, sidx, emitted, bpc, requests, outcome, response, batch_result

lmVars == <<lpc, lines, sidx, emitted, bpc, requests, outcome, response,
            batch_result>>

VARIABLES
  executed, exec_calls, last_only, last_started

resultVars == <<executed, exec_calls, last_only, last_started>>

VARIABLES
  qpc, agents_data, astate, executed_agents, errors, status

qwenVars == <<qpc, agents_data, astate, executed_agents, errors, status>>

VARIABLES
  session, sessions_opened, ops, last_op

sessionVars == <<session, sessions_opened, ops, last_op>>

auxVars == <<resultVars, qwenVars, sessionVars>>

vars == <<agentVars, searchVars, lmVars, auxVars>>

\* ------------------------------------------------------------- helpers
\* execute_tools(only=None)
NoOnly == [given |-> FALSE, names |-> {}]

\* the manifest entries, by position
AGENTS == 1..MaxAgents

\* no lifecycle operation made yet
NoOp == [op |-> NONE, before |-> NONE, opened |-> 0, raised |-> FALSE]

\* an id without a handle; spawned counts the create_task calls made for
\* the id
NoFuture == [state |-> "none", name |-> NONE, args |-> <<>>, raised |-> FALSE,
             spawned |-> 0]

NoResult == [produced |-> FALSE, iterations |-> 0, final_response |-> <<>>,
             tool_calls_total |-> 0]

\* position of the buffer entry for id, 0 when id has no entry
BufferIndex(buf, id) ==
  IF \E i \in 1..Len(buf) : buf[i].id = id
  THEN CHOOSE i \in 1..Len(buf) : buf[i].id = id
  ELSE 0

\* json.loads(tool_args_str) if tool_args_str else {}
ArgsParse(args) == args = <<>> \/ args = <<"{", "}">>

\* the tool function is reached: the arguments parse and the name is
\* registered
ToolCalled(name, args) == ArgsParse(args) /\ name \in REGISTRY

\* the registry lookup left out: tool_registry[name] raises KeyError
ExecuteTool_nolookup(name, args, id, raises) ==
  IF ~ArgsParse(args)
  THEN [tool_call_id |-> id, is_error |-> TRUE,
        output |-> <<"Error executing tool: ", "JSONDecodeError">>]
  ELSE IF name \notin REGISTRY
  THEN [tool_call_id |-> id, is_error |-> TRUE,
        output |-> <<"Error executing tool: ", "KeyError">>]
  ELSE IF raises
  THEN [tool_call_id |-> id, is_error |-> TRUE,
        output |-> <<"Error executing tool: ", "tool raised">>]
  ELSE [tool_call_id |-> id, is_error |-> FALSE, output |-> <<"tool output">>]

\* the except branch without is_error
ExecuteTool_noflag(name, args, id, raises) ==
  IF ~ArgsParse(args)
  THEN [tool_call_id |-> id, is_error |-> FALSE,
        output |-> <<"Error executing tool: ", "JSONDecodeError">>]
  ELSE IF name \notin REGISTRY
  THEN [tool_call_id |-> id, is_error |-> TRUE,
        output |-> <<"Error: Tool '", name, "' not found">>]
  ELSE IF raises
  THEN [tool_call_id |-> id, is_error |-> FALSE,
        output |-> <<"Error executing tool: ", "tool raised">>]
  ELSE [tool_call_id |-> id, is_error |-> FALSE, output |-> <<"tool output">>]

\* _execute_tool: parse arguments, look the tool up, call it, convert
\* every exception into an error ToolResult
ExecuteTool(name, args, id, raises) ==
  IF ~ArgsParse(args)
  THEN [tool_call_id |-> id, is_error |-> TRUE,
        output |-> <<"Error executing tool: ", "JSONDecodeError">>]
  ELSE IF name \notin REGISTRY
  THEN [tool_call_id |-> id, is_error |-> TRUE,
        output |-> <<"Error: Tool '", name, "' not found">>]
  ELSE IF raises
  THEN [tool_call_id |-> id, is_error |-> TRUE,
        output |-> <<"Error executing tool: ", "tool raised">>]
  ELSE [tool_call_id |-> id, is_error |-> FALSE, output |-> <<"tool output">>]

\* asyncio.create_task(_execute_tool(...)): the coroutine is bound to the
\* name and arguments the buffer holds at the moment of the call
Spawn(tc, old) ==
  [state |-> "running", name |-> tc.name, args |-> tc.arguments,
   raised |-> FALSE, spawned |-> old.spawned + 1]

\* the tool message without its call id
ToolMessage_noid(tr) ==
  [role |-> "tool", hasContent |-> TRUE, content |-> tr.output,
   tool_calls |-> <<>>, tool_call_id |-> NONE]

\* ToolResult.message
ToolMessage(tr) ==
  [role |-> "tool", hasContent |-> TRUE, content |-> tr.output,
   tool_calls |-> <<>>, tool_call_id |-> tr.tool_call_id]

\* msg.get("content", "")
GetContent(msg) == IF msg.hasContent THEN msg.content ELSE <<>>

\* an agent run, before its first loop test
AgentStart(caps, execs) ==
  /\ pc = "loop"
  /\ max_iterations \in caps
  /\ early_tool_execution \in BOOLEAN
  /\ execute_tools \in execs
  /\ iteration = 0
  /\ total_tool_calls = 0
  /\ history \in InitialHistories
  /\ gen_tool_call_id = NONE
  /\ gen_tool_call_name = NONE
  /\ content = <<>>
  /\ tool_call_buffer = <<>>
  /\ tool_futures = [i \in IDS |-> NoFuture]
  /\ last_tool_id = NONE
  /\ step_tool_calls = <<>>
  /\ results = <<>>
  /\ await_idx = 0
  /\ agent_result = NoResult
  /\ error = NONE
  /\ events = <<>>
  /\ completed = <<>>
  /\ rounds = 0
  /\ deltas = 0

\* agent() calls step without execute_tools (lines 665-671): the default,
\* True, applies
AgentInit == AgentStart(0..MaxIter, {TRUE})

\* no agent run
AgentIdle ==
  /\ pc = "idle"
  /\ max_iterations = 0
  /\ early_tool_execution = TRUE
  /\ execute_tools = TRUE
  /\ iteration = 0
  /\ total_tool_calls = 0
  /\ history = <<>>
  /\ gen_tool_call_id = NONE
  /\ gen_tool_call_name = NONE
  /\ content = <<>>
  /\ tool_call_buffer = <<>>
  /\ tool_futures = [i \in IDS |-> NoFuture]
  /\ last_tool_id = NONE
  /\ step_tool_calls = <<>>
  /\ results = <<>>
  /\ await_idx = 0
  /\ agent_result = NoResult
  /\ error = NONE
  /\ events = <<>>
  /\ completed = <<>>
  /\ rounds = 0
  /\ deltas = 0

\* -------------------------------------------------------------- agent()
\* lines 692-698: final_response = history[-1].get("content", ""), then the
\* AgentResult is yielded; history[-1] on an empty list raises IndexError
Finish(hist, iter, total) ==
  IF hist = <<>>
  THEN /\ pc' = "failed"
       /\ error' = "IndexError"
       /\ agent_result' = agent_result
  ELSE /\ pc' = "done"
       /\ error' = error
       /\ agent_result' = [produced |-> TRUE, iterations |-> iter,
                           final_response |-> GetContent(hist[Len(hist)]),
                           tool_calls_total |-> total]

\* the condition with an off-by-one
LoopCondition_le(iter, max) == iter <= max

\* line 663: the while condition
LoopCondition(iter, max) == iter < max

\* while iteration < max_iterations: iteration += 1; step(...) is entered
\* with a fresh assistant message, buffer and futures map
LoopEnter ==
  /\ pc = "loop"
  /\ LoopCondition(iteration, max_iterations)
  /\ iteration' = iteration + 1
  /\ rounds' = rounds + 1
  /\ pc' = "stream"
  /\ gen_tool_call_id' = NONE
  /\ gen_tool_call_name' = NONE
  /\ content' = <<>>
  /\ tool_call_buffer' = <<>>
  /\ tool_futures' = [i \in IDS |-> NoFuture]
  /\ last_tool_id' = NONE
  /\ step_tool_calls' = <<>>
  /\ results' = <<>>
  /\ await_idx' = 0
  /\ events' = <<>>
  /\ completed' = <<>>
  /\ UNCHANGED <<searchVars, lmVars, auxVars>>
  /\ UNCHANGED <<max_iterations, early_tool_execution, execute_tools, total_tool_calls,
                 history, agent_result, error, deltas>>

\* the while condition is false: fall through to the final yield
LoopExit ==
  /\ pc = "loop"
  /\ ~LoopCondition(iteration, max_iterations)
  /\ Finish(history, iteration, total_tool_calls)
  /\ UNCHANGED <<searchVars, lmVars, auxVars>>
  /\ UNCHANGED <<max_iterations, early_tool_execution, execute_tools, iteration,
                 total_tool_calls, history, gen_tool_call_id,
                 gen_tool_call_name, content, tool_call_buffer, tool_futures,
                 last_tool_id, step_tool_calls, results, await_idx, events,
                 completed, rounds, deltas>>

\* gen yields AssistantResponse(content=text); step appends it
StreamContent(text) ==
  /\ pc = "stream"
  /\ deltas < MaxEvents
  /\ deltas' = deltas + 1
  /\ content' = content \o text
  /\ events' = Append(events, [kind |-> "content", id |-> NONE,
                               arguments |-> text, rawId |-> FALSE])
  /\ UNCHANGED <<searchVars, lmVars, auxVars>>
  /\ UNCHANGED <<pc, max_iterations, early_tool_execution, execute_tools, iteration,
                 total_tool_calls, history, gen_tool_call_id,
                 gen_tool_call_name, tool_call_buffer, tool_futures,
                 last_tool_id, step_tool_calls, results, await_idx,
                 agent_result, error, completed, rounds>>

\* the fragment put in front of the buffer
AppendArgs_prepend(old, frag) == frag \o old

\* lines 602-604: arguments += chunk.arguments or ""
AppendArgs(old, frag) == old \o frag

\* the previous call launched whatever the flags say
EarlyLaunch_always(early, exec) == TRUE

\* lines 572-573: early_tool_execution and execute_tools
EarlyLaunch(early, exec) == early /\ exec

\* step's handling of one ToolCall chunk (lines 565-606)
StepToolCall(cid, cname, cargs) ==
  IF cid # NONE /\ BufferIndex(tool_call_buffer, cid) = 0
  THEN /\ tool_futures' =
            IF EarlyLaunch(early_tool_execution, execute_tools)
               /\ last_tool_id # NONE
               /\ BufferIndex(tool_call_buffer, last_tool_id) # 0
            THEN [tool_futures EXCEPT ![last_tool_id] =
                    Spawn(tool_call_buffer[BufferIndex(tool_call_buffer,
                                                       last_tool_id)], @)]
            ELSE tool_futures
       /\ tool_call_buffer' = Append(tool_call_buffer,
                                     [id |-> cid, name |-> cname,
                                      arguments |-> cargs])
       /\ last_tool_id' = cid
  ELSE /\ tool_call_buffer' =
            IF BufferIndex(tool_call_buffer, cid) # 0
            THEN [tool_call_buffer EXCEPT
                    ![BufferIndex(tool_call_buffer, cid)].arguments =
                       AppendArgs(@, cargs)]
            ELSE tool_call_buffer
       /\ UNCHANGED <<tool_futures, last_tool_id>>

\* id and name emitted only on the fragment whose delta carries them
Emitted_firstonly(hasId, seen) == IF hasId THEN seen ELSE NONE

\* line 467: ToolCall(id=tool_call_id, name=tool_call_name, ...) with the
\* values remembered from the last delta that carried an id
Emitted(hasId, seen) == seen

\* a tool_calls delta: gen remembers id and name when the delta carries an
\* id, and yields ToolCall(id=last seen id, name=last seen name, arguments)
StreamToolDelta(hasId, did, dname, dargs) ==
  /\ pc = "stream"
  /\ deltas < MaxEvents
  /\ deltas' = deltas + 1
  /\ gen_tool_call_id' = IF hasId THEN did ELSE gen_tool_call_id
  /\ gen_tool_call_name' = IF hasId THEN dname ELSE gen_tool_call_name
  /\ StepToolCall(Emitted(hasId, gen_tool_call_id'),
                  Emitted(hasId, gen_tool_call_name'), dargs)
  /\ events' = Append(events, [kind |-> "tool",
                               id |-> Emitted(hasId, gen_tool_call_id'),
                               arguments |-> dargs, rawId |-> hasId])
  /\ UNCHANGED <<searchVars, lmVars, auxVars>>
  /\ UNCHANGED <<pc, max_iterations, early_tool_execution, execute_tools, iteration,
                 total_tool_calls, history, content, step_tool_calls,
                 results, await_idx, agent_result, error, completed, rounds>>

\* the post-stream pass spawning every call, started early or not
PostStreamFutures_respawn(calls, futs) ==
  [i \in IDS |->
     IF BufferIndex(calls, i) # 0
     THEN Spawn(calls[BufferIndex(calls, i)], futs[i])
     ELSE futs[i]]

\* the post-stream pass left out: the last call keeps no handle
PostStreamFutures_skip(calls, futs) == futs

\* post-stream execution (lines 620-634): every call without a handle is
\* spawned now
PostStreamFutures(calls, futs) ==
  [i \in IDS |->
     IF futs[i].state = "none" /\ BufferIndex(calls, i) # 0
     THEN Spawn(calls[BufferIndex(calls, i)], futs[i])
     ELSE futs[i]]

\* lines 611-618: the assistant message of the step
AssistantMessage(text, calls) ==
  [role |-> "assistant", hasContent |-> text # <<>>, content |-> text,
   tool_calls |-> calls, tool_call_id |-> NONE]

\* the loop without its break
StepContinues_always(calls) == TRUE

\* line 679: if result.tool_calls: ... else: break
StepContinues(calls) == calls # <<>>

\* the tool results never awaited
AfterStep_noawait(calls) == "loop"

\* lines 679-688: a step with tool calls is followed by
\* "await result.tool_results()" before control returns to the while test
AfterStep(calls) == IF calls # <<>> THEN "await" ELSE "loop"

\* a Step with tool calls counted as one call
CountCalls_steps(total, calls) == total + 1

\* line 680: total_tool_calls += len(result.tool_calls)
CountCalls(total, calls) == total + Len(calls)

\* the stream ends: step finalizes and yields the StepResult, agent appends
\* the assistant message and either goes on to await the tools or breaks
StreamEnd ==
  /\ pc = "stream"
  /\ step_tool_calls' = tool_call_buffer
  /\ tool_futures' = IF execute_tools
                     THEN PostStreamFutures(tool_call_buffer, tool_futures)
                     ELSE tool_futures
  /\ history' = Append(history, AssistantMessage(content, tool_call_buffer))
  /\ IF StepContinues(tool_call_buffer)
     THEN /\ total_tool_calls' = CountCalls(total_tool_calls, tool_call_buffer)
          /\ pc' = AfterStep(tool_call_buffer)
          /\ await_idx' = IF pc' = "await" THEN 1 ELSE 0
          /\ UNCHANGED <<agent_result, error>>
     ELSE /\ Finish(history', iteration, total_tool_calls)
          /\ UNCHANGED <<total_tool_calls, await_idx>>
  /\ UNCHANGED <<searchVars, lmVars, auxVars>>
  /\ UNCHANGED <<max_iterations, early_tool_execution, execute_tools, iteration,
                 gen_tool_call_id, gen_tool_call_name, content,
                 tool_call_buffer, last_tool_id, results, events, completed,
                 rounds, deltas>>

\* a malformed delta skipped and the stream read on
AfterRaise_skip(e) == IF e = "ValueError" THEN "stream" ELSE "failed"

\* the error of the stream swallowed by the step
AfterRaise_swallow(e) == IF e = "ConnectionError" THEN "stream" ELSE "failed"

\* no try/except around the stream in gen (460-471), step (559-609) or
\* agent (665-672): the exception ends the run
AfterRaise(e) == "failed"

\* lm.stream raises ConnectionError, or gen raises ValueError on a delta
\* that carries neither tool_calls nor content; nothing in step or agent
\* catches it
StreamRaise(e) ==
  /\ pc = "stream"
  /\ pc' = AfterRaise(e)
  /\ error' = e
  /\ UNCHANGED <<searchVars, lmVars, auxVars>>
  /\ UNCHANGED <<max_iterations, early_tool_execution, execute_tools, iteration,
                 total_tool_calls, history, gen_tool_call_id,
                 gen_tool_call_name, content, tool_call_buffer, tool_futures,
                 last_tool_id, step_tool_calls, results, await_idx,
                 agent_result, events, completed, rounds, deltas>>

\* a spawned _execute_tool task runs to completion while the agent is
\* suspended; tasks complete in any order, and a tool function that is
\* reached returns or raises
ToolComplete(id, raises) ==
  /\ pc \in {"stream", "await", "returned", "results"}
  /\ tool_futures[id].state = "running"
  /\ raises => ToolCalled(tool_futures[id].name, tool_futures[id].args)
  /\ tool_futures' = [tool_futures EXCEPT ![id].state = "done",
                                           ![id].raised = raises]
  /\ completed' = Append(completed, id)
  /\ UNCHANGED <<searchVars, lmVars, auxVars>>
  /\ UNCHANGED <<pc, max_iterations, early_tool_execution, execute_tools, iteration,
                 total_tool_calls, history, gen_tool_call_id,
                 gen_tool_call_name, content, tool_call_buffer, last_tool_id,
                 step_tool_calls, results, await_idx, agent_result, error,
                 events, rounds, deltas>>

\* the value a finished future holds
FutureResult(futs, id) ==
  ExecuteTool(futs[id].name, futs[id].args, id, futs[id].raised)

RECURSIVE ToolMessages(_)
ToolMessages(rs) ==
  IF rs = <<>> THEN <<>>
  ELSE <<ToolMessage(Head(rs))>> \o ToolMessages(Tail(rs))

\* the tool messages written over the assistant message
HistoryExtend_replace(hist, rs) ==
  SubSeq(hist, 1, Len(hist) - 1) \o ToolMessages(rs)

\* the tool messages never appended
HistoryExtend_drop(hist, rs) == hist

\* line 688: history.extend([tr.message for tr in tool_results])
HistoryExtend(hist, rs) == hist \o ToolMessages(rs)

\* the futures awaited in completion order
AwaitedId_completion ==
  IF await_idx <= Len(completed)
  THEN completed[await_idx]
  ELSE step_tool_calls[await_idx].id

\* line 96: the future awaited next is the one of the next call in
\* tool_calls order
AwaitedId == step_tool_calls[await_idx].id

\* StepResult.tool_results: await the futures in tool_calls order; after
\* the last one agent extends history with the tool messages; a call
\* without a future makes self._tool_futures[id] raise KeyError
AwaitResult ==
  /\ pc = "await"
  /\ await_idx \in 1..Len(step_tool_calls)
  /\ tool_futures[AwaitedId].state # "running"
  /\ IF tool_futures[AwaitedId].state = "none"
     THEN /\ pc' = "failed"
          /\ error' = "KeyError"
          /\ UNCHANGED <<results, history, await_idx>>
     ELSE /\ results' = Append(results, FutureResult(tool_futures, AwaitedId))
          /\ error' = error
          /\ IF await_idx = Len(step_tool_calls)
             THEN /\ history' = HistoryExtend(history, results')
                  /\ pc' = "loop"
                  /\ await_idx' = 0
             ELSE /\ await_idx' = await_idx + 1
                  /\ UNCHANGED <<history, pc>>
  /\ UNCHANGED <<searchVars, lmVars, auxVars>>
  /\ UNCHANGED <<max_iterations, early_tool_execution, execute_tools, iteration,
                 total_tool_calls, gen_tool_call_id, gen_tool_call_name,
                 content, tool_call_buffer, tool_futures, last_tool_id,
                 step_tool_calls, agent_result, events, completed,
                 rounds, deltas>>

\* ------------------------------------------------------- search_agent()
URLS == 1..MaxUrls
Texts == {<<>>, <<" ">>, <<"x">>, <<" ", "x">>}
NoText == [set |-> FALSE, val |-> <<>>]
\* what one fetch backend call can do: raise, or return a page with a
\* status and an extracted text
Outcomes ==
  {[raised |-> TRUE, status |-> 0, text |-> <<>>]}
  \cup [raised : {FALSE}, status : {200, 500}, text : Texts]
FailureMarker ==
  <<"Failed to fetch content: All methods (get, fetch, stealthy_fetch) failed or returned empty content">>
CannedAnalysis == <<"Failed to fetch content from this URL.">>
NoEntry == [db_id |-> 0, link |-> 0, method |-> NONE]
OldRow == [link |-> 0, text |-> <<"o">>]

\* str.strip() over the modelled alphabet
RECURSIVE LStrip(_)
LStrip(t) == IF t # <<>> /\ Head(t) = " " THEN LStrip(Tail(t)) ELSE t
RECURSIVE RStrip(_)
RStrip(t) ==
  IF t # <<>> /\ t[Len(t)] = " " THEN RStrip(SubSeq(t, 1, Len(t) - 1)) ELSE t
Strip(t) == RStrip(LStrip(t))

\* "if text" on the local variable text (None and "" are falsy)
Truthy(t) == t.set /\ t.val # <<>>

\* the success predicate of a fetch attempt: the call returned, the status
\* is 200 and the extracted text is non-empty after trimming
Success(o) == ~o.raised /\ o.status = 200 /\ Strip(o.text) # <<>>

\* the attempt accepted on a non-empty text, trimmed or not
TierAttempt_notrim(t, m, tier, o) ==
  IF o.raised \/ o.status # 200
  THEN [text |-> t, method |-> m]
  ELSE IF o.text # <<>>
  THEN [text |-> [set |-> TRUE, val |-> o.text], method |-> tier]
  ELSE [text |-> NoText, method |-> m]

\* one tier's try-block: text and method_used after the attempt
\*   if page.status == 200: text = join; if text and text.strip():
\*   method_used = m else text = None; an exception leaves both untouched
TierAttempt(t, m, tier, o) ==
  IF o.raised \/ o.status # 200
  THEN [text |-> t, method |-> m]
  ELSE IF o.text # <<>> /\ Strip(o.text) # <<>>
  THEN [text |-> [set |-> TRUE, val |-> o.text], method |-> tier]
  ELSE [text |-> NoText, method |-> m]

\* the next tier tried unconditionally
NeedsNextTier_always(t) == TRUE

\* lines 320 and 348: "if not text" guards the next tier
NeedsNextTier(t) == ~Truthy(t)

\* the newest row overwritten instead of a row inserted
SaveToDb_replace(d, link, text) ==
  IF d = <<>> THEN <<[link |-> link, text |-> text]>>
  ELSE [d EXCEPT ![Len(d)] = [link |-> link, text |-> text]]

\* save_to_db: INSERT INTO search_results (link, text); the table is the
\* sequence of its rows, the AUTOINCREMENT id of a row being its position
SaveToDb(d, link, text) == Append(d, [link |-> link, text |-> text])

\* cursor.lastrowid after the insert
LastRowId(d) == Len(d)

\* get_from_db: SELECT link, text WHERE id = row_id; None without a row
GetFromDb(d, row_id) ==
  IF row_id \in 1..Len(d) THEN d[row_id] ELSE [link |-> 0, text |-> <<>>]

\* lines 377-387: store the text or the failure marker, return the entry
StoreResult(u, r) ==
  /\ db' = SaveToDb(db, u,
                    IF Truthy(r.text) /\ Strip(r.text.val) # <<>>
                    THEN r.text.val ELSE FailureMarker)
  /\ db_entries' = [db_entries EXCEPT ![u] =
                      [db_id |-> LastRowId(db'), link |-> u,
                       method |-> IF Truthy(r.text) /\ Strip(r.text.val) # <<>>
                                  THEN r.method ELSE "failed"]]
  /\ fpc' = [fpc EXCEPT ![u] = "done"]

SearchIdle ==
  /\ spc = "idle"
  /\ search_results = <<>>
  /\ fpc = [u \in URLS |-> "none"]
  /\ ftext = [u \in URLS |-> NoText]
  /\ method_used = [u \in URLS |-> NONE]
  /\ invoked = [u \in URLS |-> <<>>]
  /\ succeeded = [u \in URLS |-> <<>>]
  /\ db = <<>>
  /\ db_entries = [u \in URLS |-> NoEntry]
  /\ apc = [u \in URLS |-> "none"]
  /\ launched = [u \in URLS |-> FALSE]
  /\ doc_analyses = <<>>
  /\ final_answer = <<>>
  /\ search_error = NONE

\* search_agent is called; search_cache.db may hold rows of earlier runs
SearchInit ==
  /\ spc = "search"
  /\ search_results = <<>>
  /\ fpc = [u \in URLS |-> "none"]
  /\ ftext = [u \in URLS |-> NoText]
  /\ method_used = [u \in URLS |-> NONE]
  /\ invoked = [u \in URLS |-> <<>>]
  /\ succeeded = [u \in URLS |-> <<>>]
  /\ db \in {[i \in 1..n |-> OldRow] : n \in 0..MaxOldRows}
  /\ db_entries = [u \in URLS |-> NoEntry]
  /\ apc = [u \in URLS |-> "none"]
  /\ launched = [u \in URLS |-> FALSE]
  /\ doc_analyses = <<>>
  /\ final_answer = <<>>
  /\ search_error = NONE

\* the empty result list not tested
NoResults_never(rs) == FALSE

\* line 280: if not search_results
NoResults(rs) == rs = <<>>

\* lines 276-281 and 389: the search returns n results; with none the
\* function returns at once, otherwise one fetch_and_store task per result
\* is handed to gather
Search(n) ==
  /\ spc = "search"
  /\ search_results' = [i \in 1..n |-> i]
  /\ IF NoResults(search_results')
     THEN /\ spc' = "returned"
          /\ final_answer' = <<"No search results found for the query.">>
          /\ fpc' = fpc
     ELSE /\ spc' = "fetch"
          /\ final_answer' = final_answer
          /\ fpc' = [u \in URLS |-> IF u <= n THEN "new" ELSE "none"]
  /\ UNCHANGED <<ftext, method_used, invoked, succeeded, db, db_entries, apc,
                 launched, doc_analyses, search_error>>
  /\ UNCHANGED <<agentVars, lmVars, auxVars>>

\* Fetcher.get is a plain call, not awaited: while a task is inside it the
\* event loop runs nothing else
EventLoopFree == \A u \in URLS : fpc[u] # "get"

\* tiers 1 and 2 started together
FirstAttempts_race == <<"get", "fetch">>

\* line 299: a task begins with the tier-1 attempt alone
FirstAttempts == <<"get">>

\* a fetch_and_store task gets the event loop (tasks start in list order)
\* and calls Fetcher.get
FetchStart(u) ==
  /\ spc = "fetch"
  /\ EventLoopFree
  /\ fpc[u] = "new"
  /\ \A v \in 1..(u - 1) : fpc[v] # "new"
  /\ fpc' = [fpc EXCEPT ![u] = "get"]
  /\ invoked' = [invoked EXCEPT ![u] = FirstAttempts]
  /\ UNCHANGED <<spc, search_results, ftext, method_used, succeeded, db,
                 db_entries, apc, launched, doc_analyses, final_answer,
                 search_error>>
  /\ UNCHANGED <<agentVars, lmVars, auxVars>>

\* Fetcher.get returns or raises; on failure the task calls
\* DynamicFetcher.async_fetch and is suspended
FetchTier1(u, o) ==
  /\ spc = "fetch"
  /\ fpc[u] = "get"
  /\ LET r == TierAttempt(NoText, NONE, "get", o) IN
       /\ ftext' = [ftext EXCEPT ![u] = r.text]
       /\ succeeded' = [succeeded EXCEPT ![u] = Append(@, Success(o))]
       /\ method_used' = [method_used EXCEPT ![u] = r.method]
       /\ IF NeedsNextTier(r.text)
          THEN /\ invoked' = [invoked EXCEPT ![u] = Append(@, "fetch")]
               /\ fpc' = [fpc EXCEPT ![u] = "fetch"]
               /\ UNCHANGED <<db, db_entries>>
          ELSE /\ invoked' = invoked
               /\ StoreResult(u, r)
  /\ UNCHANGED <<spc, search_results, apc, launched, doc_analyses,
                 final_answer, search_error>>
  /\ UNCHANGED <<agentVars, lmVars, auxVars>>

\* the awaited DynamicFetcher.async_fetch finishes; on failure the task
\* calls StealthyFetcher.async_fetch and is suspended again
FetchTier2(u, o) ==
  /\ spc = "fetch"
  /\ EventLoopFree
  /\ fpc[u] = "fetch"
  /\ LET r == TierAttempt(ftext[u], method_used[u], "fetch", o) IN
       /\ ftext' = [ftext EXCEPT ![u] = r.text]
       /\ succeeded' = [succeeded EXCEPT ![u] = Append(@, Success(o))]
       /\ method_used' = [method_used EXCEPT ![u] = r.method]
       /\ IF NeedsNextTier(r.text)
          THEN /\ invoked' = [invoked EXCEPT ![u] = Append(@, "stealthy_fetch")]
               /\ fpc' = [fpc EXCEPT ![u] = "stealthy_fetch"]
               /\ UNCHANGED <<db, db_entries>>
          ELSE /\ invoked' = invoked
               /\ StoreResult(u, r)
  /\ UNCHANGED <<spc, search_results, apc, launched, doc_analyses,
                 final_answer, search_error>>
  /\ UNCHANGED <<agentVars, lmVars, auxVars>>

\* the awaited StealthyFetcher.async_fetch finishes; the task stores what
\* it has and returns
FetchTier3(u, o) ==
  /\ spc = "fetch"
  /\ EventLoopFree
  /\ fpc[u] = "stealthy_fetch"
  /\ LET r == TierAttempt(ftext[u], method_used[u], "stealthy_fetch", o) IN
       /\ ftext' = [ftext EXCEPT ![u] = r.text]
       /\ succeeded' = [succeeded EXCEPT ![u] = Append(@, Success(o))]
       /\ method_used' = [method_used EXCEPT ![u] = r.method]
       /\ StoreResult(u, r)
  /\ UNCHANGED <<spc, search_results, invoked, apc, launched, doc_analyses,
                 final_answer, search_error>>
  /\ UNCHANGED <<agentVars, lmVars, auxVars>>

\* the analyses started as soon as the first fetch task has returned
AllFetched_first == fpc[1] = "done"

\* line 390: gather returns when every fetch task has returned
AllFetched == \A u \in 1..Len(search_results) : fpc[u] = "done"

\* gather(*fetch_tasks) returns; one analyze_document task per entry is
\* handed to gather
FetchGather ==
  /\ spc = "fetch"
  /\ AllFetched
  /\ spc' = "analyze"
  /\ apc' = [u \in URLS |-> IF u <= Len(search_results) THEN "new" ELSE "none"]
  /\ UNCHANGED <<search_results, fpc, ftext, method_used, invoked, succeeded,
                 db, db_entries, launched, doc_analyses, final_answer,
                 search_error>>
  /\ UNCHANGED <<agentVars, lmVars, auxVars>>

\* agent() contains yield: calling it returns an async generator object
AgentIsAsyncGenerator == TRUE

\* "result = await agent(...)" as written in doc_agent and
\* final_answer_agent: awaiting an async generator object raises TypeError
AwaitAgent ==
  IF AgentIsAsyncGenerator
  THEN [raised |-> TRUE, error |-> "TypeError", value |-> <<>>]
  ELSE [raised |-> FALSE, error |-> NONE, value |-> <<"final_response">>]

\* the entries in the order in which the fetch tasks stored their rows
GatherResult_completion(u) ==
  CHOOSE e \in {db_entries[v] : v \in 1..Len(search_results)} :
    Cardinality({v \in 1..Len(search_results) :
                   db_entries[v].db_id <= e.db_id}) = u

\* line 390: gather returns the results in the order of the tasks handed
\* to it; entry u is what the fetch task of search result u returned
GatherResult(u) == db_entries[u]

\* the failed entries analysed like the others
AnalyzeDocument_nofilter(entry) ==
  IF AwaitAgent.raised
  THEN [link |-> entry.link,
        analysis |-> <<"Analysis failed: ", AwaitAgent.error>>,
        launched |-> TRUE, escaped |-> FALSE]
  ELSE [link |-> entry.link, analysis |-> AwaitAgent.value,
        launched |-> TRUE, escaped |-> FALSE]

\* doc_agent's exception not caught
AnalyzeDocument_nocatch(entry) ==
  IF entry.method = "failed"
  THEN [link |-> entry.link, analysis |-> CannedAnalysis, launched |-> FALSE,
        escaped |-> FALSE]
  ELSE [link |-> entry.link, analysis |-> AwaitAgent.value,
        launched |-> TRUE, escaped |-> AwaitAgent.raised]

\* analyze_document(entry): canned text for a failed fetch, otherwise
\* doc_agent is called and any exception becomes the analysis text
AnalyzeDocument(entry) ==
  IF entry.method = "failed"
  THEN [link |-> entry.link, analysis |-> CannedAnalysis, launched |-> FALSE,
        escaped |-> FALSE]
  ELSE IF AwaitAgent.raised
  THEN [link |-> entry.link,
        analysis |-> <<"Analysis failed: ", AwaitAgent.error>>,
        launched |-> TRUE, escaped |-> FALSE]
  ELSE [link |-> entry.link, analysis |-> AwaitAgent.value,
        launched |-> TRUE, escaped |-> FALSE]

\* an analyze_document task runs (tasks start in list order); an exception
\* that left the task would leave gather and search_agent
Analyze(u) ==
  /\ spc = "analyze"
  /\ apc[u] = "new"
  /\ \A v \in 1..(u - 1) : apc[v] # "new"
  /\ apc' = [apc EXCEPT ![u] = "done"]
  /\ LET r == AnalyzeDocument(GatherResult(u)) IN
       /\ launched' = [launched EXCEPT ![r.link] = r.launched]
       /\ IF r.escaped
          THEN /\ spc' = "raised"
               /\ search_error' = AwaitAgent.error
               /\ doc_analyses' = doc_analyses
          ELSE /\ doc_analyses' = Append(doc_analyses,
                                         [link |-> r.link,
                                          analysis |-> r.analysis])
               /\ UNCHANGED <<spc, search_error>>
  /\ UNCHANGED <<search_results, fpc, ftext, method_used, invoked,
                 succeeded, db, db_entries, final_answer>>
  /\ UNCHANGED <<agentVars, lmVars, auxVars>>

\* the synthesis called as soon as the first analysis is there
AllAnalysed_first == apc[1] = "done"

\* line 412: gather returns when every analyze_document task has returned
AllAnalysed == \A u \in 1..Len(search_results) : apc[u] = "done"

\* gather(*analysis_tasks) returns and final_answer_agent is awaited; its
\* exception is not caught by search_agent
Synthesize ==
  /\ spc = "analyze"
  /\ AllAnalysed
  /\ IF AwaitAgent.raised
     THEN /\ spc' = "raised"
          /\ search_error' = AwaitAgent.error
          /\ final_answer' = final_answer
     ELSE /\ spc' = "returned"
          /\ search_error' = search_error
          /\ final_answer' = AwaitAgent.value
  /\ UNCHANGED <<search_results, fpc, ftext, method_used, invoked, succeeded,
                 db, db_entries, apc, launched, doc_analyses>>
  /\ UNCHANGED <<agentVars, lmVars, auxVars>>

\* ------------------------------------------------ idle values of the rest
\* no StepResult in the hands of a caller
ResultIdle ==
  /\ executed = FALSE
  /\ exec_calls = 0
  /\ last_only = NoOnly
  /\ last_started = {}

\* run_multiple_qwen_agents_in_parallel not called
QwenIdle ==
  /\ qpc = "idle"
  /\ agents_data = 0
  /\ astate = [i \in AGENTS |-> "none"]
  /\ executed_agents = <<>>
  /\ errors = <<>>
  /\ status = NONE

\* an LM object on which no lifecycle operation is exercised
SessionIdle ==
  /\ session = "none"
  /\ sessions_opened = 0
  /\ ops = <<>>
  /\ last_op = NoOp

\* ------------------------------------------------------------ LM.stream
\* the lines of a response body, as the branches of the read loop tell
\* them apart: empty after strip, the end-of-stream marker "data: [DONE]",
\* a "data: " line with a JSON payload, any other line
LineKinds == {"blank", "done", "data", "other"}

\* no request in flight
LmIdle ==
  /\ lpc = "idle"
  /\ lines = <<>>
  /\ sidx = 0
  /\ emitted = <<>>
  /\ bpc = "idle"
  /\ requests = 0
  /\ outcome = <<>>
  /\ response = <<>>
  /\ batch_result = <<>>

\* lm.stream(...) is iterated; the server will send the lines of `lines`
StreamInit ==
  /\ lpc = "open"
  /\ lines \in UNION {[1..n -> LineKinds] : n \in 0..MaxLines}
  /\ sidx = 0
  /\ emitted = <<>>
  /\ bpc = "idle"
  /\ requests = 0
  /\ outcome = <<>>
  /\ response = <<>>
  /\ batch_result = <<>>

\* lines 403-407: session.post and resp.raise_for_status(); an unreachable
\* endpoint or a status >= 400 raises before any line is read
StreamOpen(ok) ==
  /\ lpc = "open"
  /\ lpc' = IF ok THEN "read" ELSE "failed"
  /\ UNCHANGED <<lines, sidx, emitted, bpc, requests, outcome, response,
                 batch_result>>
  /\ UNCHANGED <<agentVars, searchVars, auxVars>>

\* lines 412-413: the marker line is skipped with continue, like an empty
\* line; the loop goes on to the next line
AfterLine(kind) == "read"

\* lines 409-416: one pass of "async for line in resp.content"
StreamLine ==
  /\ lpc = "read"
  /\ sidx < Len(lines)
  /\ sidx' = sidx + 1
  /\ emitted' = IF lines[sidx'] = "data"
                THEN Append(emitted, [line |-> sidx'])
                ELSE emitted
  /\ lpc' = AfterLine(lines[sidx'])
  /\ UNCHANGED <<lines, bpc, requests, outcome, response, batch_result>>
  /\ UNCHANGED <<agentVars, searchVars, auxVars>>

\* the body is exhausted: the generator returns
StreamClose ==
  /\ lpc = "read"
  /\ sidx = Len(lines)
  /\ lpc' = "closed"
  /\ UNCHANGED <<lines, sidx, emitted, bpc, requests, outcome, response,
                 batch_result>>
  /\ UNCHANGED <<agentVars, searchVars, auxVars>>

StreamSpecInit ==
  /\ AgentIdle /\ SearchIdle /\ StreamInit
  /\ ResultIdle /\ QwenIdle /\ SessionIdle

StreamNext ==
  \/ \E ok \in BOOLEAN : StreamOpen(ok)
  \/ StreamLine
  \/ StreamClose

StreamSpec == StreamSpecInit /\ [][StreamNext]_vars

\* ------------------------------------------------------------- LM.batch
\* what one request of a batch can meet: a JSON body with a status below
\* 400, a JSON body with a status >= 400, a body resp.json() cannot
\* decode, or no response at all
RequestOutcomes == {"ok", "http_error", "bad_body", "unreachable"}

\* lm.batch(messages_batch) is awaited on a started session
BatchInit ==
  /\ lpc = "idle"
  /\ lines = <<>>
  /\ sidx = 0
  /\ emitted = <<>>
  /\ bpc = "call"
  /\ requests = 0
  /\ outcome = <<>>
  /\ response = <<>>
  /\ batch_result = <<>>

NoResponse == [kind |-> "pending", of |-> 0, error |-> NONE]

\* lines 438-445: _single returns the decoded body, or raises
\* RuntimeError for a status >= 400, or whatever post / resp.json() raised
Single(i, o) ==
  IF o = "ok" THEN [kind |-> "response", of |-> i, error |-> NONE]
  ELSE IF o = "http_error"
  THEN [kind |-> "error", of |-> i, error |-> "RuntimeError"]
  ELSE IF o = "bad_body"
  THEN [kind |-> "error", of |-> i, error |-> "ContentTypeError"]
  ELSE [kind |-> "error", of |-> i, error |-> "ClientConnectorError"]

\* line 447: one _single coroutine per conversation, handed to gather
BatchStart(n) ==
  /\ bpc = "call"
  /\ bpc' = "gather"
  /\ requests' = n
  /\ outcome' = [i \in 1..n |-> NONE]
  /\ response' = [i \in 1..n |-> NoResponse]
  /\ UNCHANGED <<lpc, lines, sidx, emitted, batch_result>>
  /\ UNCHANGED <<agentVars, searchVars, auxVars>>

\* request i finishes; the requests finish in any order
BatchComplete(i, o) ==
  /\ bpc = "gather"
  /\ i \in 1..requests
  /\ response[i].kind = "pending"
  /\ outcome' = [outcome EXCEPT ![i] = o]
  /\ response' = [response EXCEPT ![i] = Single(i, o)]
  /\ UNCHANGED <<lpc, lines, sidx, emitted, bpc, requests, batch_result>>
  /\ UNCHANGED <<agentVars, searchVars, auxVars>>

\* gather without return_exceptions: the first error is raised to the caller
Gathered_raise(rs) ==
  IF \E i \in 1..Len(rs) : rs[i].kind = "error"
  THEN [raised |-> TRUE, value |-> <<>>]
  ELSE [raised |-> FALSE, value |-> rs]

\* line 448: gather(*tasks, return_exceptions=True) returns, in the order
\* of the tasks, each task's return value or the exception it raised
Gathered(rs) == [raised |-> FALSE, value |-> rs]

\* every request has finished: gather returns and batch returns its list
BatchReturn ==
  /\ bpc = "gather"
  /\ \A i \in 1..requests : response[i].kind # "pending"
  /\ bpc' = IF Gathered(response).raised THEN "failed" ELSE "returned"
  /\ batch_result' = Gathered(response).value
  /\ UNCHANGED <<lpc, lines, sidx, emitted, requests, outcome, response>>
  /\ UNCHANGED <<agentVars, searchVars, auxVars>>

BatchSpecInit ==
  /\ AgentIdle /\ SearchIdle /\ BatchInit
  /\ ResultIdle /\ QwenIdle /\ SessionIdle

BatchNext ==
  \/ \E n \in 0..MaxBatch : BatchStart(n)
  \/ \E i \in 1..MaxBatch, o \in RequestOutcomes : BatchComplete(i, o)
  \/ BatchReturn

BatchSpec == BatchSpecInit /\ [][BatchNext]_vars

Init ==
  /\ AgentInit /\ SearchIdle /\ LmIdle
  /\ ResultIdle /\ QwenIdle /\ SessionIdle

SearchSpecInit ==
  /\ AgentIdle /\ SearchInit /\ LmIdle
  /\ ResultIdle /\ QwenIdle /\ SessionIdle

SearchNext ==
  \/ \E n \in 0..MaxUrls : Search(n)
  \/ \E u \in URLS : FetchStart(u)
  \/ \E u \in URLS, o \in Outcomes : FetchTier1(u, o)
  \/ \E u \in URLS, o \in Outcomes : FetchTier2(u, o)
  \/ \E u \in URLS, o \in Outcomes : FetchTier3(u, o)
  \/ FetchGather
  \/ \E u \in URLS : Analyze(u)
  \/ Synthesize

SearchSpec == SearchSpecInit /\ [][SearchNext]_vars

Next ==
  \/ LoopEnter
  \/ LoopExit
  \/ \E text \in ContentFragments : StreamContent(text)
  \/ \E hasId \in BOOLEAN, did \in IDS, dname \in NAMES,
        dargs \in ArgFragments :
       StreamToolDelta(hasId, did, dname, dargs)
  \/ StreamEnd
  \/ \E e \in {"ConnectionError", "ValueError"} : StreamRaise(e)
  \/ \E id \in IDS, raises \in BOOLEAN : ToolComplete(id, raises)
  \/ AwaitResult

Spec == Init /\ [][Next]_vars

\* one Step in isolation (a run capped at one iteration, with either
\* value of step's execute_tools), its fragments including the empty string
\* that "chunk.arguments or ''" admits
StepFragments == {<<>>} \cup ArgFragments

StepInit ==
  /\ AgentStart({1}, BOOLEAN)
  /\ SearchIdle
  /\ LmIdle
  /\ ResultIdle /\ QwenIdle /\ SessionIdle

StepNext ==
  \/ LoopEnter
  \/ LoopExit
  \/ \E text \in ContentFragments : StreamContent(text)
  \/ \E hasId \in BOOLEAN, did \in IDS, dname \in NAMES,
        dargs \in StepFragments :
       StreamToolDelta(hasId, did, dname, dargs)
  \/ StreamEnd
  \/ \E e \in {"ConnectionError", "ValueError"} : StreamRaise(e)
  \/ \E id \in IDS, raises \in BOOLEAN : ToolComplete(id, raises)
  \/ AwaitResult

StepSpec == StepInit /\ [][StepNext]_vars
\* ------------------------------------------- step() and StepResult, used
\* directly: the caller drives step itself and calls execute_tools on the
\* StepResult it gets
\* the values of "only": None, or a list of tool names
OnlyChoices == {NoOnly} \cup [given : {TRUE}, names : SUBSET NAMES]

\* step is called and opens the stream
StepStart ==
  /\ pc = "stream"
  /\ max_iterations = 0
  /\ early_tool_execution \in BOOLEAN
  /\ execute_tools \in BOOLEAN
  /\ iteration = 0
  /\ total_tool_calls = 0
  /\ history \in InitialHistories
  /\ gen_tool_call_id = NONE
  /\ gen_tool_call_name = NONE
  /\ content = <<>>
  /\ tool_call_buffer = <<>>
  /\ tool_futures = [i \in IDS |-> NoFuture]
  /\ last_tool_id = NONE
  /\ step_tool_calls = <<>>
  /\ results = <<>>
  /\ await_idx = 0
  /\ agent_result = NoResult
  /\ error = NONE
  /\ events = <<>>
  /\ completed = <<>>
  /\ rounds = 0
  /\ deltas = 0

\* lines 611-643: the stream has ended; step finalizes, runs the
\* post-stream pass when execute_tools is set and yields the StepResult
StepReturn ==
  /\ pc = "stream"
  /\ step_tool_calls' = tool_call_buffer
  /\ tool_futures' = IF execute_tools
                     THEN PostStreamFutures(tool_call_buffer, tool_futures)
                     ELSE tool_futures
  /\ pc' = "returned"
  /\ UNCHANGED <<searchVars, lmVars, auxVars>>
  /\ UNCHANGED <<max_iterations, early_tool_execution, execute_tools, iteration,
                 total_tool_calls, history, gen_tool_call_id,
                 gen_tool_call_name, content, tool_call_buffer, last_tool_id,
                 results, await_idx, agent_result, error, events, completed,
                 rounds, deltas>>

\* line 55: "if only and name not in only: continue" (None and [] are
\* falsy)
Selected(only, name) ==
  ~(only.given /\ only.names # {} /\ name \notin only.names)

\* lines 51-82: the ids execute_tools creates a task for
Started(calls, futs, only) ==
  {i \in IDS : /\ BufferIndex(calls, i) # 0
               /\ Selected(only, calls[BufferIndex(calls, i)].name)
               /\ futs[i].state = "none"}

\* StepResult.execute_tools up to its await: a second call raises; the
\* first creates the missing tasks of the selected calls, sets _executed and
\* enters tool_results
ExecuteTools(only) ==
  /\ pc = "returned"
  /\ exec_calls < MaxCalls
  /\ exec_calls' = exec_calls + 1
  /\ IF executed
     THEN /\ pc' = "failed"
          /\ error' = "RuntimeError"
          /\ UNCHANGED <<tool_futures, executed, last_only, last_started,
                         results, await_idx>>
     ELSE /\ tool_futures' =
               [i \in IDS |->
                  IF i \in Started(step_tool_calls, tool_futures, only)
                  THEN Spawn(step_tool_calls[BufferIndex(step_tool_calls, i)],
                             tool_futures[i])
                  ELSE tool_futures[i]]
          /\ executed' = TRUE
          /\ last_only' = only
          /\ last_started' = Started(step_tool_calls, tool_futures, only)
          /\ results' = <<>>
          /\ IF step_tool_calls = <<>>
             THEN pc' = "returned" /\ await_idx' = 0
             ELSE pc' = "results" /\ await_idx' = 1
          /\ error' = error
  /\ UNCHANGED <<searchVars, lmVars, qwenVars, sessionVars>>
  /\ UNCHANGED <<max_iterations, early_tool_execution, execute_tools, iteration,
                 total_tool_calls, history, gen_tool_call_id,
                 gen_tool_call_name, content, tool_call_buffer, last_tool_id,
                 step_tool_calls, agent_result, events, completed, rounds,
                 deltas>>

\* the value of a handle: a task created by execute_tools for an
\* unregistered name is asyncio.sleep(0, result=...) with its own text
\* (lines 62-72), every other task is _execute_tool
HandleResult(futs, id) ==
  IF id \in last_started /\ futs[id].name \notin REGISTRY
  THEN [tool_call_id |-> id, is_error |-> TRUE,
        output |-> <<"Tool '", futs[id].name, "' not found">>]
  ELSE FutureResult(futs, id)

\* StepResult.tool_results inside execute_tools (line 85): the handles are
\* looked up and awaited in tool_calls order; a call without a handle makes
\* self._tool_futures[id] raise KeyError
ResultsAwait ==
  /\ pc = "results"
  /\ await_idx \in 1..Len(step_tool_calls)
  /\ tool_futures[AwaitedId].state # "running"
  /\ IF tool_futures[AwaitedId].state = "none"
     THEN /\ pc' = "failed"
          /\ error' = "KeyError"
          /\ UNCHANGED <<results, await_idx>>
     ELSE /\ results' = Append(results, HandleResult(tool_futures, AwaitedId))
          /\ error' = error
          /\ IF await_idx = Len(step_tool_calls)
             THEN pc' = "returned" /\ await_idx' = 0
             ELSE pc' = pc /\ await_idx' = await_idx + 1
  /\ UNCHANGED <<searchVars, lmVars, auxVars>>
  /\ UNCHANGED <<max_iterations, early_tool_execution, execute_tools, iteration,
                 total_tool_calls, history, gen_tool_call_id,
                 gen_tool_call_name, content, tool_call_buffer, tool_futures,
                 last_tool_id, step_tool_calls, agent_result, events,
                 completed, rounds, deltas>>

ResultSpecInit ==
  /\ StepStart /\ SearchIdle /\ LmIdle
  /\ ResultIdle /\ QwenIdle /\ SessionIdle

ResultNext ==
  \/ \E hasId \in BOOLEAN, did \in IDS, dname \in NAMES :
       StreamToolDelta(hasId, did, dname, <<>>)
  \/ StepReturn
  \/ \E only \in OnlyChoices : ExecuteTools(only)
  \/ \E id \in IDS, raises \in BOOLEAN : ToolComplete(id, raises)
  \/ ResultsAwait

ResultSpec == ResultSpecInit /\ [][ResultNext]_vars

\* ------------------------------- run_multiple_qwen_agents_in_parallel()
\* ThreadPoolExecutor(max_workers=4)
MaxWorkers == 4

\* what execute_agent meets for one manifest entry: an entry that is not
\* a dict, an entry without a string system_prompt, or a qwen subprocess
\* that exits with 0, exits with another code, times out, or cannot be run
AgentKinds == {"invalid", "no_prompt", "ok", "nonzero", "timeout", "exception"}

\* execute_agent: the result dict, by its state and by whether it has an
\* "error" key
ExecuteAgent(idx, kind) ==
  [idx |-> idx,
   state |-> IF kind = "ok" THEN "completed" ELSE "failed",
   error |-> kind \in {"invalid", "no_prompt", "timeout", "exception"}]

\* the tool is called with a path
QwenInit ==
  /\ qpc = "call"
  /\ agents_data = 0
  /\ astate = [i \in AGENTS |-> "none"]
  /\ executed_agents = <<>>
  /\ errors = <<>>
  /\ status = NONE

\* steps 1 and 2 (lines 53-80): a missing or unreadable file, or JSON that
\* is not an array, returns validation_failed with one message; otherwise
\* the n entries are submitted to the pool (line 119)
QwenLoad(valid, n) ==
  /\ qpc = "call"
  /\ IF valid
     THEN /\ qpc' = "pool"
          /\ agents_data' = n
          /\ astate' = [i \in AGENTS |-> IF i <= n THEN "queued" ELSE "none"]
          /\ UNCHANGED <<errors, status>>
     ELSE /\ qpc' = "returned"
          /\ status' = "validation_failed"
          /\ errors' = <<0>>
          /\ UNCHANGED <<agents_data, astate>>
  /\ UNCHANGED executed_agents
  /\ UNCHANGED <<agentVars, searchVars, lmVars, resultVars, sessionVars>>

\* every submitted entry taken at once
WorkerFree_unbounded(running) == TRUE

\* a worker thread of the pool is free
WorkerFree(running) == running < MaxWorkers

\* a free worker takes the oldest queued entry
AgentBegin(i) ==
  /\ qpc = "pool"
  /\ astate[i] = "queued"
  /\ \A j \in 1..(i - 1) : astate[j] # "queued"
  /\ WorkerFree(Cardinality({j \in AGENTS : astate[j] = "running"}))
  /\ astate' = [astate EXCEPT ![i] = "running"]
  /\ UNCHANGED <<qpc, agents_data, executed_agents, errors, status>>
  /\ UNCHANGED <<agentVars, searchVars, lmVars, resultVars, sessionVars>>

\* execute_agent returns for entry i; as_completed hands the future to the
\* loop of lines 121-125, which appends the result and, when the result
\* has an "error" key, a message
AgentEnd(i, kind) ==
  /\ qpc = "pool"
  /\ astate[i] = "running"
  /\ astate' = [astate EXCEPT ![i] = "finished"]
  /\ executed_agents' = Append(executed_agents, ExecuteAgent(i, kind))
  /\ errors' = IF ExecuteAgent(i, kind).error
               THEN Append(errors, i) ELSE errors
  /\ UNCHANGED <<qpc, agents_data, status>>
  /\ UNCHANGED <<agentVars, searchVars, lmVars, resultVars, sessionVars>>

\* lines 127-141: every future has been consumed; the status follows from
\* the errors list
QwenReturn ==
  /\ qpc = "pool"
  /\ \A i \in AGENTS : astate[i] \in {"none", "finished"}
  /\ qpc' = "returned"
  /\ status' = IF errors # <<>> THEN "completed_with_errors" ELSE "completed"
  /\ UNCHANGED <<agents_data, astate, executed_agents, errors>>
  /\ UNCHANGED <<agentVars, searchVars, lmVars, resultVars, sessionVars>>

QwenSpecInit ==
  /\ AgentIdle /\ SearchIdle /\ LmIdle
  /\ ResultIdle /\ QwenInit /\ SessionIdle

QwenNext ==
  \/ \E valid \in BOOLEAN, n \in 0..MaxAgents : QwenLoad(valid, n)
  \/ \E i \in AGENTS : AgentBegin(i)
  \/ \E i \in AGENTS, kind \in AgentKinds : AgentEnd(i, kind)
  \/ QwenReturn

QwenSpec == QwenSpecInit /\ [][QwenNext]_vars

\* ----------------------------------------------- LM session lifecycle
\* a closed session taken for a usable one
SessionMissing_none(sess) == sess = "none"

\* lines 369 and 378: self._session is None or self._session.closed
SessionMissing(sess) == sess = "none" \/ sess = "closed"

\* LM.start: a ClientSession is created unless one is open
LmStart ==
  /\ Len(ops) < MaxOps
  /\ ops' = Append(ops, "start")
  /\ last_op' = [op |-> "start", before |-> session,
                 opened |-> sessions_opened, raised |-> FALSE]
  /\ IF SessionMissing(session)
     THEN session' = "open" /\ sessions_opened' = sessions_opened + 1
     ELSE UNCHANGED <<session, sessions_opened>>
  /\ UNCHANGED <<agentVars, searchVars, lmVars, resultVars, qwenVars>>

\* LM.close: an open session is closed, anything else is left as it is
LmClose ==
  /\ Len(ops) < MaxOps
  /\ ops' = Append(ops, "close")
  /\ last_op' = [op |-> "close", before |-> session,
                 opened |-> sessions_opened, raised |-> FALSE]
  /\ session' = IF session = "open" THEN "closed" ELSE session
  /\ UNCHANGED sessions_opened
  /\ UNCHANGED <<agentVars, searchVars, lmVars, resultVars, qwenVars>>

\* LM.stream and LM.batch begin with self._require_session(), which
\* raises RuntimeError("LM session not started...") without a usable
\* session
LmCall(op) ==
  /\ Len(ops) < MaxOps
  /\ ops' = Append(ops, op)
  /\ last_op' = [op |-> op, before |-> session, opened |-> sessions_opened,
                 raised |-> SessionMissing(session)]
  /\ UNCHANGED <<session, sessions_opened>>
  /\ UNCHANGED <<agentVars, searchVars, lmVars, resultVars, qwenVars>>

SessionSpecInit ==
  /\ AgentIdle /\ SearchIdle /\ LmIdle
  /\ ResultIdle /\ QwenIdle /\ SessionIdle

SessionNext ==
  \/ LmStart
  \/ LmClose
  \/ \E op \in {"stream", "batch"} : LmCall(op)

SessionSpec == SessionSpecInit /\ [][SessionNext]_vars

\* ====================================================== properties
InitLen == Len(CHOOSE h \in InitialHistories : TRUE)

\* C1: the loop runs at most max_iterations Step rounds, whatever the model
\* streams, and the AgentResult's iterations is the number of rounds run
\* and at most max_iterations
C1_LoopCap ==
  /\ rounds <= max_iterations
  /\ agent_result.produced =>
       /\ agent_result.iterations = rounds
       /\ agent_result.iterations <= max_iterations

\* the model asked for tools in every round and the cap stopped the loop
C1_Witness ==
  /\ agent_result.produced
  /\ max_iterations >= 2
  /\ rounds = max_iterations
  /\ step_tool_calls # <<>>
  /\ Len(history) >= InitLen + 2 * max_iterations

\* C2: when the first Step produces no tool calls the run is over with
\* iterations = 1, exactly one assistant message appended, and
\* final_response equal to the text accumulated in that step
C2_NoToolTermination ==
  (Len(history) > InitLen /\ history[InitLen + 1].tool_calls = <<>>) =>
    /\ pc = "done"
    /\ agent_result.produced
    /\ agent_result.iterations = 1
    /\ rounds = 1
    /\ Len(history) = InitLen + 1
    /\ history[InitLen + 1].role = "assistant"
    /\ agent_result.final_response = content

\* a first step that streamed text and no tool call
C2_Witness ==
  /\ pc = "done"
  /\ max_iterations = 2
  /\ rounds = 1
  /\ content = <<"t", "t">>
  /\ history[Len(history)].content = <<"t", "t">>
  /\ agent_result.final_response = <<"t", "t">>

\* position i of the awaited results is a call of the registered tool that
\* raised
ToolRaised(i) ==
  /\ tool_futures[step_tool_calls[i].id].raised
  /\ tool_futures[step_tool_calls[i].id].name \in REGISTRY

\* C3: a registered tool that raises yields an error ToolResult carrying
\* the exception text; the result is appended to history as a tool message
\* and the loop goes on to the next iteration when below the cap
C3_ToolErrorIsolation ==
  \A i \in 1..Len(results) :
    ToolRaised(i) =>
      /\ results[i].is_error
      /\ results[i].tool_call_id = step_tool_calls[i].id
      /\ \E k \in 1..Len(results[i].output) :
           results[i].output[k] = "tool raised"
      /\ pc # "failed"
      /\ error = NONE
      /\ pc \in {"loop", "stream", "done"} =>
           /\ Len(results) = Len(step_tool_calls)
           /\ pc = "loop" =>
                /\ history[Len(history) - Len(results) + i]
                     = ToolMessage(results[i])
                /\ iteration < max_iterations => ENABLED LoopEnter

\* a raising tool in round 1 and the loop in round 2
C3_Witness ==
  /\ pc = "stream"
  /\ iteration = 2
  /\ \E k \in 1..Len(history) :
       /\ history[k].role = "tool"
       /\ history[k].content = <<"Error executing tool: ", "tool raised">>

\* the argument fragments of the events carrying id, concatenated in
\* arrival order
RECURSIVE ConcatFragments(_, _)
ConcatFragments(evs, id) ==
  IF evs = <<>> THEN <<>>
  ELSE (IF Head(evs).kind = "tool" /\ Head(evs).id = id
        THEN Head(evs).arguments ELSE <<>>)
       \o ConcatFragments(Tail(evs), id)

\* C4: the arguments recorded for a call id are the concatenation, in
\* arrival order, of the fragments of every event carrying that id
C4_Reassembly ==
  /\ \A i \in 1..Len(tool_call_buffer) :
       tool_call_buffer[i].arguments
         = ConcatFragments(events, tool_call_buffer[i].id)
  /\ \A i \in 1..Len(step_tool_calls) :
       step_tool_calls[i].arguments
         = ConcatFragments(events, step_tool_calls[i].id)

\* a call reassembled from two fragments with another call's fragment
\* between them
C4_Witness ==
  /\ pc = "await"
  /\ Len(events) = 3
  /\ events[1].id = events[3].id
  /\ events[2].id # events[1].id
  /\ events[2].kind = "tool"
  /\ Len(step_tool_calls) = 2
  /\ step_tool_calls[1].arguments = <<"{", "}">>

\* C5: tool_results returns one result per call, in the order of
\* tool_calls, the result at position i being the one of call i, whatever
\* order the executions complete in
C5_ResultOrder ==
  /\ Len(results) <= Len(step_tool_calls)
  /\ \A i \in 1..Len(results) :
       /\ results[i].tool_call_id = step_tool_calls[i].id
       /\ results[i] = FutureResult(tool_futures, step_tool_calls[i].id)
  /\ pc \in {"loop", "done"} => Len(results) = Len(step_tool_calls)

\* the second call completed before the first and both were awaited
C5_Witness ==
  /\ Len(step_tool_calls) = 2
  /\ Len(results) = 2
  /\ completed = <<step_tool_calls[2].id, step_tool_calls[1].id>>
Tiers == <<"get", "fetch", "stealthy_fetch">>

\* C6: once a tier's attempt for a URL succeeds no later tier is invoked
\* for it and the recorded method is that tier, the first to succeed
C6_FallbackMonotonic ==
  \A u \in URLS :
    /\ Len(invoked[u]) <= 3
    /\ invoked[u] = SubSeq(Tiers, 1, Len(invoked[u]))
    /\ \A i \in 1..Len(succeeded[u]) :
         succeeded[u][i] =>
           /\ Len(invoked[u]) = i
           /\ Len(succeeded[u]) = i
           /\ fpc[u] = "done"
           /\ db_entries[u].method = Tiers[i]

\* one URL served by tier 1 and one by tier 2, the pipeline run to its end
C6_Witness ==
  /\ spc \in {"returned", "raised"}
  /\ \E u, v \in URLS :
       /\ succeeded[u] = <<TRUE>>
       /\ invoked[u] = <<"get">>
       /\ succeeded[v] = <<FALSE, TRUE>>
       /\ invoked[v] = <<"get", "fetch">>

\* C7: when all three tiers fail for a URL a row with the failure marker is
\* stored for it with method = failed, and the orchestrator still returns a
\* non-error final answer built from the other URLs (stated for the runs
\* that have another URL)
C7_FallbackExhaustion ==
  \A u \in URLS :
    (/\ fpc[u] = "done"
     /\ succeeded[u] = <<FALSE, FALSE, FALSE>>
     /\ Len(search_results) >= 2) =>
      /\ db_entries[u].method = "failed"
      /\ db[db_entries[u].db_id] = [link |-> u, text |-> FailureMarker]
      /\ spc # "raised"
      /\ search_error = NONE

\* the content of the most recent assistant message with non-empty
\* content, scanning backward; "" when there is none
RECURSIVE LastAssistantContent(_)
LastAssistantContent(h) ==
  IF h = <<>> THEN <<>>
  ELSE IF /\ h[Len(h)].role = "assistant"
          /\ h[Len(h)].hasContent
          /\ h[Len(h)].content # <<>>
  THEN h[Len(h)].content
  ELSE LastAssistantContent(SubSeq(h, 1, Len(h) - 1))

\* C8: final_response is the content of the most recent assistant message
\* of history that has non-empty content (stated for the runs of at least
\* one Step)
C8_FinalResponse ==
  (agent_result.produced /\ rounds >= 1) =>
    agent_result.final_response = LastAssistantContent(history)

\* index of the first assistant message after position i, Len + 1 if none
NextAssistant(i) ==
  IF \E j \in (i + 1)..Len(history) : history[j].role = "assistant"
  THEN CHOOSE j \in (i + 1)..Len(history) :
         /\ history[j].role = "assistant"
         /\ \A k \in (i + 1)..(j - 1) : history[k].role # "assistant"
  ELSE Len(history) + 1

\* the tool messages between assistant message i and the next assistant
\* message that answer call id
Answers(i, id) ==
  {k \in (i + 1)..(NextAssistant(i) - 1) :
     history[k].role = "tool" /\ history[k].tool_call_id = id}

\* C9: every tool call on an assistant message is followed, before the next
\* assistant message, by exactly one tool message with that call's id (and
\* never by more than one while its results are still being awaited)
C9_ToolMessagePairing ==
  \A i \in 1..Len(history) :
    history[i].role = "assistant" =>
      \A n \in 1..Len(history[i].tool_calls) :
        /\ Cardinality(Answers(i, history[i].tool_calls[n].id)) <= 1
        /\ (NextAssistant(i) <= Len(history) \/ pc \in {"loop", "done"}) =>
             Cardinality(Answers(i, history[i].tool_calls[n].id)) = 1

\* an assistant message with two calls, followed by the next assistant
\* message
C9_Witness ==
  \E i \in 1..Len(history) :
    /\ history[i].role = "assistant"
    /\ Len(history[i].tool_calls) = 2
    /\ NextAssistant(i) <= Len(history)

\* C10 as stated: at the cap, the final step's tool calls are neither
\* awaited nor answered by tool messages
C10_FinalRoundDropped ==
  (/\ agent_result.produced
   /\ iteration = max_iterations
   /\ step_tool_calls # <<>>) =>
    /\ results = <<>>
    /\ history[Len(history)].role = "assistant"

\* C10 amended: at the cap, the final step's tool calls have all been
\* awaited and one tool message per call has been appended, in call order,
\* before the AgentResult is produced
C10_FinalRoundAwaited ==
  (agent_result.produced /\ step_tool_calls # <<>>) =>
    /\ iteration = max_iterations
    /\ Len(results) = Len(step_tool_calls)
    /\ \A i \in 1..Len(step_tool_calls) :
         /\ tool_futures[step_tool_calls[i].id].state = "done"
         /\ history[Len(history) - Len(step_tool_calls) + i].role = "tool"
         /\ history[Len(history) - Len(step_tool_calls) + i].tool_call_id
              = step_tool_calls[i].id
         /\ history[Len(history) - Len(step_tool_calls) + i].content
              = results[i].output

\* the cap of one iteration reached by a step with two tool calls
C10_Witness ==
  /\ agent_result.produced
  /\ max_iterations = 1
  /\ iteration = 1
  /\ Len(step_tool_calls) = 2

\* C11: a call's execution is started only when its argument stream is
\* finished: the arguments every started execution was launched with are
\* the final arguments recorded for the call in StepResult.tool_calls
C11_LaunchArgsFinal ==
  \A i \in 1..Len(step_tool_calls) :
    tool_futures[step_tool_calls[i].id].state # "none" =>
      tool_futures[step_tool_calls[i].id].args = step_tool_calls[i].arguments

\* the tool-not-found output of _execute_tool
NotFoundOutput(name) == <<"Error: Tool '", name, "' not found">>

C13_InvalidJsonIsError ==
  \A i \in 1..Len(results) :
    ~ArgsParse(step_tool_calls[i].arguments) =>
      /\ results[i].is_error
      /\ results[i].tool_call_id = step_tool_calls[i].id
      /\ ~ToolCalled(tool_futures[step_tool_calls[i].id].name,
                     tool_futures[step_tool_calls[i].id].args)
      /\ pc # "failed"

\* C14: the loop stops after a Step exactly when that Step produced no tool
\* calls or the number of Steps run has reached max_iterations; a Step that
\* produced tool calls below the cap is followed by the await of all its
\* tool results and then by another Step
C14_LoopStop ==
  /\ (pc \in {"await", "loop"} /\ rounds >= 1) => step_tool_calls # <<>>
  /\ (pc = "loop" /\ rounds >= 1) =>
       /\ Len(results) = Len(step_tool_calls)
       /\ \A i \in 1..Len(step_tool_calls) :
            tool_futures[step_tool_calls[i].id].state = "done"
       /\ iteration < max_iterations =>
            ENABLED LoopEnter /\ ~ENABLED LoopExit
       /\ iteration >= max_iterations =>
            ENABLED LoopExit /\ ~ENABLED LoopEnter
  /\ pc = "done" =>
       \/ rounds >= 1 /\ step_tool_calls = <<>>
       \/ /\ rounds = max_iterations
          /\ Len(results) = Len(step_tool_calls)

\* a first Step with two tool calls below the cap, both awaited, then a
\* second Step without tool calls that ended the run
C14_Witness ==
  /\ pc = "done"
  /\ max_iterations = 2
  /\ rounds = 2
  /\ step_tool_calls = <<>>
  /\ Len(history) = InitLen + 4
  /\ history[InitLen + 2].role = "tool"
  /\ history[InitLen + 3].role = "tool"

\* an attempt of some tier for u has started and not finished
InProgress(u) == fpc[u] \in {"get", "fetch", "stealthy_fetch"}

\* C15: for one URL the tiers run strictly one after the other: at most one
\* attempt is in progress at any time, it is the last one started, and
\* every attempt started before it has finished
C15_TiersSequential ==
  \A u \in URLS :
    /\ invoked[u] = SubSeq(Tiers, 1, Len(invoked[u]))
    /\ Len(invoked[u]) - Len(succeeded[u]) = IF InProgress(u) THEN 1 ELSE 0
    /\ InProgress(u) => fpc[u] = Tiers[Len(invoked[u])]

\* tier 3 in progress for a URL after its tiers 1 and 2 were tried and
\* failed
C15_Witness ==
  \E u \in URLS :
    /\ fpc[u] = "stealthy_fetch"
    /\ invoked[u] = Tiers
    /\ succeeded[u] = <<FALSE, FALSE>>

\* C16: the pipelines of different URLs run concurrently, tier 1 included:
\* while one URL's tier-1 attempt is in progress the task of the next URL
\* can start its own tier-1 attempt
C16_Tier1Concurrent ==
  \A u, v \in URLS :
    (/\ fpc[u] = "get"
     /\ fpc[v] = "new"
     /\ \A w \in 1..(v - 1) : fpc[w] # "new") => ENABLED FetchStart(v)

\* the positions of doc_analyses that hold the analysis of link u
AnalysesOf(u) == {i \in 1..Len(doc_analyses) : doc_analyses[i].link = u}

\* C17: a DocAgent run is launched for a URL exactly when its fetch outcome
\* is not failed; a failed outcome gets the canned analysis and no run
C17_DocAgentLaunch ==
  \A u \in URLS :
    /\ apc[u] # "done" => ~launched[u]
    /\ apc[u] = "done" =>
         /\ launched[u] <=> db_entries[u].method # "failed"
         /\ db_entries[u].method = "failed" =>
              \A i \in AnalysesOf(u) : doc_analyses[i].analysis = CannedAnalysis
         /\ db_entries[u].method # "failed" =>
              \A i \in AnalysesOf(u) : doc_analyses[i].analysis # CannedAnalysis
         /\ AnalysesOf(u) # {}

\* both documents analysed: one fetch failed and got no DocAgent run, the
\* other was served by tier 3 and got one
C17_Witness ==
  \E u, v \in URLS :
    /\ apc[u] = "done"
    /\ apc[v] = "done"
    /\ db_entries[u].method = "failed"
    /\ ~launched[u]
    /\ db_entries[v].method = "stealthy_fetch"
    /\ launched[v]

\* C18: the {link, analysis} pairs handed to the synthesis are in the order
\* of the search results, whatever order the fetches finished in, and each
\* analysis belongs to the document stored for its link (the canned text
\* exactly when the row stored for the link holds the failure marker)
C18_AnalysesInOrder ==
  /\ Len(doc_analyses) <= Len(search_results)
  /\ \A i \in 1..Len(doc_analyses) :
       /\ doc_analyses[i].link = search_results[i]
       /\ db_entries[doc_analyses[i].link].db_id \in 1..Len(db)
       /\ db[db_entries[doc_analyses[i].link].db_id].link
            = doc_analyses[i].link
       /\ doc_analyses[i].analysis = CannedAnalysis
            <=> db[db_entries[doc_analyses[i].link].db_id].text
                  = FailureMarker
  /\ (spc \in {"raised", "returned"} /\ search_results # <<>>) =>
       Len(doc_analyses) = Len(search_results)

\* the second document's fetch finished first and failed, the first one's
\* succeeded, and the synthesis was called with both analyses
C18_Witness ==
  /\ spc = "raised"
  /\ Len(doc_analyses) = 2
  /\ db_entries[2].db_id < db_entries[1].db_id
  /\ db_entries[2].method = "failed"
  /\ db_entries[1].method = "fetch"

\* C19: no analysis of a document starts before its fetch pipeline has
\* finished and its cache row has been written
C19_AnalysisAfterFetch ==
  \A u \in URLS :
    (apc[u] # "none" \/ launched[u]) =>
      /\ fpc[u] = "done"
      /\ db_entries[u].link = u
      /\ db_entries[u].db_id \in 1..Len(db)
      /\ db[db_entries[u].db_id].link = u

\* the analysis of the first document is about to start while the second
\* document, whose fetch needed all three tiers, has its row
C19_Witness ==
  /\ spc = "analyze"
  /\ apc[1] = "new"
  /\ Len(succeeded[2]) = 3
  /\ db_entries[2].db_id = Len(db)

\* C20: when the search returns no result the orchestrator returns the
\* no-results answer at once: no fetch attempt, no cache row, no DocAgent
\* run and no synthesis
C20_NoResults ==
  (spc \notin {"idle", "search"} /\ search_results = <<>>) =>
    /\ spc = "returned"
    /\ final_answer = <<"No search results found for the query.">>
    /\ search_error = NONE
    /\ doc_analyses = <<>>
    /\ \A i \in 1..Len(db) : db[i] = OldRow
    /\ \A u \in URLS :
         /\ fpc[u] = "none"
         /\ invoked[u] = <<>>
         /\ db_entries[u] = NoEntry
         /\ apc[u] = "none"
         /\ ~launched[u]

\* the search found nothing and the call has returned, the cache holding
\* only the row of an earlier run
C20_Witness ==
  /\ spc = "returned"
  /\ search_results = <<>>
  /\ db = <<OldRow>>

\* the text analyze_document puts in place of a failed DocAgent run
FailedAnalysis == <<"Analysis failed: ", AwaitAgent.error>>

\* C21: a DocAgent run that fails is confined to its document: the
\* analysis of that link is the error text, the run of search_agent is not
\* ended by it, the next document's analysis can still run, and the
\* synthesis is called with one analysis per search result
C21_DocAgentFailureConfined ==
  /\ \A u \in URLS :
       (launched[u] /\ AwaitAgent.raised) =>
         /\ \A i \in AnalysesOf(u) : doc_analyses[i].analysis = FailedAnalysis
         /\ AnalysesOf(u) # {}
         /\ spc = "analyze" =>
              /\ search_error = NONE
              /\ \A v \in URLS :
                   (apc[v] = "new" /\ \A w \in 1..(v - 1) : apc[w] # "new")
                     => ENABLED Analyze(v)
              /\ AllAnalysed => ENABLED Synthesize
  /\ spc = "raised" =>
       /\ Len(doc_analyses) = Len(search_results)
       /\ \A i \in 1..Len(doc_analyses) :
            doc_analyses[i].link = search_results[i]

\* both DocAgent runs failed, each link has its error text, and the
\* synthesis was called
C21_Witness ==
  /\ spc = "raised"
  /\ launched[1]
  /\ launched[2]
  /\ doc_analyses = <<[link |-> 1, analysis |-> FailedAnalysis],
                      [link |-> 2, analysis |-> FailedAnalysis]>>

\* C22: with at least one search result the synthesis runs once, after
\* every analysis, with one {link, analysis} pair per result, and
\* search_agent returns its final_response as the answer
C22_SynthesisReturns ==
  (spc \in {"raised", "returned"} /\ search_results # <<>>) =>
    /\ Len(doc_analyses) = Len(search_results)
    /\ spc = "returned"
    /\ search_error = NONE
    /\ final_answer = AwaitAgent.value

\* C23: the document cache is append-only with unique ids: every step
\* leaves each existing row as it was, so that a repeated lookup by id
\* returns what was saved, and the ids handed to the fetch tasks, whatever
\* order they insert in, are distinct and are not ids of earlier rows
C23_CacheAppendOnly ==
  [][/\ Len(db') >= Len(db)
     /\ \A i \in 1..Len(db) : GetFromDb(db', i) = GetFromDb(db, i)
     /\ \A u \in URLS :
          db_entries'[u].db_id # 0 =>
            /\ GetFromDb(db', db_entries'[u].db_id).link = u
            /\ \A v \in URLS \ {u} :
                 db_entries'[v].db_id # db_entries'[u].db_id]_vars

\* after the row of an earlier run, the fetch task of the second result
\* inserted before the task of the first
C23_Witness ==
  /\ Len(db) = 3
  /\ db[1] = OldRow
  /\ db[2].link = 2
  /\ db[3].link = 1
  /\ db_entries[2].db_id = 2
  /\ db_entries[1].db_id = 3

\* the id on the tool fragment emitted before event i, NONE without one
PrevToolId(i) ==
  LET S == {j \in 1..(i - 1) : events[j].kind = "tool"}
  IN IF S = {} THEN NONE
     ELSE events[CHOOSE j \in S : \A k \in S : k <= j].id

\* C24 as stated: gen emits the id only on the fragment of the delta that
\* carries it; a fragment normalized from an argument-only delta has no id
C24_IdOnFirstOnly ==
  \A i \in 1..Len(events) :
    (events[i].kind = "tool" /\ ~events[i].rawId) => events[i].id = NONE

\* C24 amended: every ToolCall fragment gen emits carries the id of the
\* latest delta that carried one: a fragment normalized from an
\* argument-only delta repeats the id of the fragment before it, so every
\* fragment reaches the buffer entry of its call
C24_IdOnEveryFragment ==
  \A i \in 1..Len(events) :
    events[i].kind = "tool" =>
      /\ ~events[i].rawId => events[i].id = PrevToolId(i)
      /\ events[i].rawId => events[i].id # NONE
      /\ events[i].id # NONE =>
           BufferIndex(tool_call_buffer, events[i].id) # 0

\* a call streamed as one delta with its id followed by two argument-only
\* deltas, all three fragments emitted with the id
C24_Witness ==
  /\ pc = "await"
  /\ Len(events) = 3
  /\ events[1].rawId
  /\ ~events[2].rawId
  /\ ~events[3].rawId
  /\ \A i \in 1..3 : events[i].kind = "tool" /\ events[i].id = "a"
  /\ Len(step_tool_calls) = 1
  /\ Len(step_tool_calls[1].arguments) = 3

\* the text of the content events, concatenated in arrival order
RECURSIVE ConcatContent(_)
ConcatContent(evs) ==
  IF evs = <<>> THEN <<>>
  ELSE (IF Head(evs).kind = "content" THEN Head(evs).arguments ELSE <<>>)
       \o ConcatContent(Tail(evs))

\* C25: a delta with neither tool-call data nor text makes gen fail; the
\* events of the earlier deltas were emitted and consumed by the step, and
\* no event is emitted for the malformed delta or after it
C25_MalformedDelta ==
  error = "ValueError" =>
    /\ pc = "failed"
    /\ ~agent_result.produced
    /\ content = ConcatContent(events)
    /\ \A i \in 1..Len(events) :
         (events[i].kind = "tool" /\ events[i].id # NONE) =>
           BufferIndex(tool_call_buffer, events[i].id) # 0
    /\ ~ENABLED (\E text \in ContentFragments : StreamContent(text))
    /\ ~ENABLED (\E hasId \in BOOLEAN, did \in IDS, dname \in NAMES,
                    dargs \in ArgFragments :
                   StreamToolDelta(hasId, did, dname, dargs))
    /\ ~ENABLED StreamEnd

\* the malformed delta came after a text delta and a tool-call delta
C25_Witness ==
  /\ error = "ValueError"
  /\ Len(events) = 2
  /\ events[1].kind = "content"
  /\ events[2].kind = "tool"
  /\ content # <<>>
  /\ tool_call_buffer # <<>>

\* the messages the completed rounds appended: per assistant message, the
\* message itself and one tool message per tool call
AppendedByRounds ==
  LET A == {i \in 1..Len(history) : history[i].role = "assistant"}
      RECURSIVE Sum(_)
      Sum(S) == IF S = {} THEN 0
                ELSE LET i == CHOOSE x \in S : TRUE
                     IN 1 + Len(history[i].tool_calls) + Sum(S \ {i})
  IN Sum(A)

\* C28: when the stream of a Step cannot be opened the Step emits nothing
\* and yields no StepResult, the error ends the run without an AgentResult,
\* and history holds the initial messages and those of the earlier rounds
\* only: no assistant message for the failed Step
C28_StreamOpenFails ==
  (error = "ConnectionError" /\ events = <<>>) =>
    /\ pc = "failed"
    /\ ~agent_result.produced
    /\ step_tool_calls = <<>>
    /\ results = <<>>
    /\ \A id \in IDS : tool_futures[id].state = "none"
    /\ Cardinality({i \in 1..Len(history) : history[i].role = "assistant"})
         = rounds - 1
    /\ Len(history) = InitLen + AppendedByRounds
    /\ ~ENABLED StreamEnd
    /\ ~ENABLED LoopEnter

\* the stream of the second Step could not be opened after a first Step
\* with one tool call
C28_Witness ==
  /\ error = "ConnectionError"
  /\ events = <<>>
  /\ rounds = 2
  /\ Len(history) = InitLen + 2
  /\ history[Len(history)].role = "tool"

\* C26: once the end-of-stream marker line has been received, LM.stream
\* emits no further delta, even if more data lines arrive
C26_NoDeltaAfterMarker ==
  \A i \in 1..Len(emitted) :
    \A j \in 1..(emitted[i].line - 1) : lines[j] # "done"

\* C27: LM.batch on N conversations returns N entries, entry i being the
\* complete response of request i or the error of request i; a request
\* that errors, a status >= 400 included, neither fails the batch nor
\* changes another entry
C27_BatchIsolation ==
  /\ bpc # "failed"
  /\ bpc = "returned" =>
       /\ Len(batch_result) = requests
       /\ \A i \in 1..requests :
            /\ batch_result[i].of = i
            /\ outcome[i] = "ok" <=> batch_result[i].kind = "response"
            /\ outcome[i] # "ok" <=> batch_result[i].kind = "error"
            /\ outcome[i] = "http_error" =>
                 batch_result[i].error = "RuntimeError"
  /\ bpc = "gather" =>
       \A i \in 1..requests :
         response[i].kind = "pending" =>
           \A o \in RequestOutcomes : ENABLED BatchComplete(i, o)

\* three requests: the first answered with a status >= 400, the second
\* unreachable, the third answered normally
C27_Witness ==
  /\ bpc = "returned"
  /\ requests = 3
  /\ outcome = <<"http_error", "unreachable", "ok">>
  /\ batch_result[3].kind = "response"

\* C29: history is append-only: every step of a run leaves the existing
\* entries where and as they were; it changes only by the agent loop
\* appending the assistant message when a Step has ended or the tool
\* messages when the results have been awaited, and nothing changes it
\* while a Step is streaming
C29_HistoryAppendOnly ==
  [][/\ Len(history') >= Len(history)
     /\ SubSeq(history', 1, Len(history)) = history
     /\ history' # history =>
          \/ /\ pc = "stream"
             /\ pc' # "stream"
             /\ Len(history') = Len(history) + 1
             /\ history'[Len(history')].role = "assistant"
          \/ /\ pc = "await"
             /\ pc' = "loop"
             /\ Len(history') = Len(history) + Len(step_tool_calls)
             /\ \A i \in (Len(history) + 1)..Len(history') :
                  history'[i].role = "tool"
     /\ (pc = "stream" /\ pc' = "stream") => history' = history]_vars

\* the second Step has ended: the initial message is followed by the
\* first assistant message, its tool message and the second assistant
\* message
C29_Witness ==
  /\ pc = "await"
  /\ rounds = 2
  /\ Len(history) = InitLen + 3
  /\ SubSeq(history, 1, InitLen) \in InitialHistories
  /\ history[InitLen + 1].role = "assistant"
  /\ history[InitLen + 2].role = "tool"
  /\ history[InitLen + 3].role = "assistant"

\* C30: while the stream of a Step is open, with early execution enabled
\* the calls whose execution has been spawned are exactly those closed by
\* the first fragment of a later new id (the open call is not spawned);
\* with early execution disabled, or execute_tools false, no execution is
\* spawned before the stream has ended
C30_EarlyExecution ==
  pc = "stream" =>
    IF early_tool_execution /\ execute_tools
    THEN \A i \in 1..Len(tool_call_buffer) :
           tool_futures[tool_call_buffer[i].id].state # "none"
             <=> tool_call_buffer[i].id # last_tool_id
    ELSE \A id \in IDS : tool_futures[id].state = "none"

\* the stream is still open after two deltas: the first call's execution
\* is running, the second call is open and not spawned
C30_Witness ==
  /\ pc = "stream"
  /\ early_tool_execution
  /\ execute_tools
  /\ Len(events) = 2
  /\ Len(tool_call_buffer) = 2
  /\ tool_futures[tool_call_buffer[1].id].state = "running"
  /\ tool_futures[tool_call_buffer[2].id].state = "none"

\* C39: when the agent run ends, by returning its AgentResult or by
\* propagating a failure of the Step, every tool execution the Step spawned
\* has completed and its result has been awaited by the loop
C39_SpawnedAwaited ==
  pc \in {"done", "failed"} =>
    \A i \in IDS :
      tool_futures[i].state # "none" =>
        /\ tool_futures[i].state = "done"
        /\ \E k \in 1..Len(results) : results[k].tool_call_id = i

\* the number of tool calls carried by the assistant messages of h
RECURSIVE CallsRequested(_)
CallsRequested(h) ==
  IF h = <<>> THEN 0
  ELSE (IF Head(h).role = "assistant" THEN Len(Head(h).tool_calls) ELSE 0)
       + CallsRequested(Tail(h))

\* the number of tool-role messages of h
RECURSIVE ToolMessageCount(_)
ToolMessageCount(h) ==
  IF h = <<>> THEN 0
  ELSE (IF Head(h).role = "tool" THEN 1 ELSE 0) + ToolMessageCount(Tail(h))

\* C38: when the run returns, AgentResult.tool_calls_total is the sum over
\* the Steps run of the number of tool calls of each Step (one assistant
\* message per Step), and it is the number of tool-role messages the loop
\* appended to history during the run
C38_TotalToolCalls ==
  agent_result.produced =>
    /\ agent_result.tool_calls_total =
         CallsRequested(SubSeq(history, InitLen + 1, Len(history)))
    /\ agent_result.tool_calls_total =
         ToolMessageCount(SubSeq(history, InitLen + 1, Len(history)))
    /\ agent_result.tool_calls_total = total_tool_calls

\* a run of two Steps returned, the first Step with two calls and the
\* second with one
C38_Witness ==
  /\ agent_result.produced
  /\ agent_result.iterations = 2
  /\ agent_result.tool_calls_total = 3
  /\ Len(history[InitLen + 1].tool_calls) = 2

\* the hypotheses of C36 as scheduling conditions: the agent coroutine
\* takes its next step when it can, a stream that is open ends, and a
\* spawned tool task completes
Fairness ==
  /\ WF_vars(LoopEnter)
  /\ WF_vars(LoopExit)
  /\ WF_vars(StreamEnd)
  /\ WF_vars(AwaitResult)
  /\ \A id \in IDS : WF_vars(\E raises \in BOOLEAN : ToolComplete(id, raises))

\* the agent loop over streams that end: no stream raises; the calls name
\* the registered tool, whose execution fails to parse its arguments,
\* raises or returns
LiveNext ==
  \/ LoopEnter
  \/ LoopExit
  \/ \E text \in ContentFragments : StreamContent(text)
  \/ \E hasId \in BOOLEAN, did \in IDS, dname \in REGISTRY,
        dargs \in ArgFragments :
       StreamToolDelta(hasId, did, dname, dargs)
  \/ StreamEnd
  \/ \E id \in IDS, raises \in BOOLEAN : ToolComplete(id, raises)
  \/ AwaitResult

LiveSpec == Init /\ [][LiveNext]_vars /\ Fairness

C32_SuccessPredicate ==
  \A u \in URLS :
    /\ \A i \in 1..Len(succeeded[u]) :
         IF succeeded[u][i]
         THEN /\ i = Len(invoked[u])
              /\ fpc[u] = "done"
              /\ db_entries[u].method = Tiers[i]
         ELSE IF i < 3
         THEN /\ Len(invoked[u]) > i
              /\ invoked[u][i + 1] = Tiers[i + 1]
         ELSE /\ fpc[u] = "done"
              /\ db_entries[u].method = "failed"
    /\ fpc[u] = "done" =>
         /\ db_entries[u].db_id \in 1..Len(db)
         /\ db[db_entries[u].db_id].link = u
         /\ Strip(db[db_entries[u].db_id].text) # <<>>
         /\ (db[db_entries[u].db_id].text = FailureMarker)
              <=> ~succeeded[u][Len(succeeded[u])]
         /\ (db_entries[u].method = "failed")
              <=> ~succeeded[u][Len(succeeded[u])]

\* a URL whose first attempt failed, served by the second tier with a text
\* that has leading whitespace
C32_Witness ==
  \E u \in URLS :
    /\ fpc[u] = "done"
    /\ succeeded[u] = <<FALSE, TRUE>>
    /\ db_entries[u].method = "fetch"
    /\ db[db_entries[u].db_id].text = <<" ", "x">>

\* C31: once a Step with execute_tools = true has returned its StepResult,
\* the ids with a handle are the ids of tool_calls and each call has been
\* spawned exactly once (during the stream no call is spawned twice);
\* execute_tools on that StepResult starts nothing, and its second
\* invocation raises
C31_SpawnedOnce ==
  execute_tools =>
    /\ \A id \in IDS : tool_futures[id].spawned <= 1
    /\ pc \in {"returned", "results", "failed"} =>
         /\ \A id \in IDS :
              /\ tool_futures[id].state # "none"
                   <=> BufferIndex(step_tool_calls, id) # 0
              /\ tool_futures[id].spawned =
                   IF BufferIndex(step_tool_calls, id) # 0 THEN 1 ELSE 0
         /\ last_started = {}
         /\ exec_calls <= 1 => pc # "failed"
         /\ exec_calls >= 2 => pc = "failed" /\ error = "RuntimeError"

\* a StepResult with two calls, the first spawned early and the second by
\* the post-stream pass, on which execute_tools has been invoked twice
C31_Witness ==
  /\ execute_tools
  /\ early_tool_execution
  /\ Len(step_tool_calls) = 2
  /\ exec_calls = 2
  /\ pc = "failed"
  /\ error = "RuntimeError"
  /\ \A id \in IDS : tool_futures[id].spawned = 1

\* C33: execute_tools(only = S), S a non-empty list, on a StepResult whose
\* tools were not auto-executed starts exactly the calls whose tool name is
\* in S and returns the results of the calls it has started
C33_ExecuteOnly ==
  (/\ ~execute_tools
   /\ exec_calls = 1
   /\ last_only.given
   /\ last_only.names # {}) =>
    /\ last_started =
         {step_tool_calls[i].id : i \in
            {j \in 1..Len(step_tool_calls) :
               step_tool_calls[j].name \in last_only.names}}
    /\ pc # "failed"
    /\ pc = "returned" =>
         /\ Len(results) = Cardinality(last_started)
         /\ \A k \in 1..Len(results) : results[k].tool_call_id \in last_started

\* C34: at most 4 agent executions are in progress at any time, and for a
\* valid manifest of N entries the call returns exactly N results, one per
\* entry, in whatever order the agents finished
C34_PoolCap ==
  /\ Cardinality({i \in AGENTS : astate[i] = "running"}) <= 4
  /\ (qpc = "returned" /\ status # "validation_failed") =>
       /\ Len(executed_agents) = agents_data
       /\ \A i \in 1..agents_data :
            Cardinality({k \in 1..Len(executed_agents) :
                           executed_agents[k].idx = i}) = 1

\* a manifest of five entries returned, the fourth entry having finished
\* first and the fifth before the first
C34_Witness ==
  /\ qpc = "returned"
  /\ agents_data = 5
  /\ Len(executed_agents) = 5
  /\ executed_agents[1].idx = 4
  /\ executed_agents[2].idx = 5
  /\ executed_agents[5].idx = 1

\* C35: for a valid manifest the status is "completed" with no errors
\* exactly when every agent completed, and when an agent failed the status
\* is "completed_with_errors" and errors holds a message for each agent
\* that failed
C35_StatusReflectsFailures ==
  (qpc = "returned" /\ status # "validation_failed") =>
    LET failed == {k \in 1..Len(executed_agents) :
                     executed_agents[k].state = "failed"}
    IN /\ (status = "completed" /\ errors = <<>>) <=> failed = {}
       /\ failed # {} =>
            /\ status = "completed_with_errors"
            /\ \A k \in failed :
                 \E e \in 1..Len(errors) : errors[e] = executed_agents[k].idx

\* C37: after any sequence of operations on one LM object, the last one
\* behaved as follows: stream and batch raised the session-not-started
\* error exactly when the session had never been started or was closed,
\* and changed nothing; start left an open session, the existing one when
\* one was open and a fresh one otherwise; close closed an open session
\* and left a never-started or closed one unchanged
C37_SessionLifecycle ==
  /\ session = "none" <=> sessions_opened = 0
  /\ last_op.op \in {"stream", "batch"} =>
       /\ last_op.raised <=> last_op.before \in {"none", "closed"}
       /\ session = last_op.before
       /\ sessions_opened = last_op.opened
  /\ last_op.op = "start" =>
       /\ ~last_op.raised
       /\ session = "open"
       /\ sessions_opened =
            IF last_op.before = "open" THEN last_op.opened
            ELSE last_op.opened + 1
  /\ last_op.op = "close" =>
       /\ ~last_op.raised
       /\ session = IF last_op.before = "open" THEN "closed"
                    ELSE last_op.before
       /\ sessions_opened = last_op.opened

\* start, close, start again, then a stream that is permitted on the
\* second session
C37_Witness ==
  /\ ops = <<"start", "close", "start", "stream">>
  /\ ~last_op.raised
  /\ sessions_opened = 2
  /\ session = "open"
====
